---------------------------- MODULE Spec2Model ----------------------------
(***************************************************************************)
(* Lattice / alignment / manifest subsystem of the WSI tiler.              *)
(*                                                                         *)
(* Number representation.  The Python code computes with floats.  Every    *)
(* float that occurs here is a multiple of 0.5 (an integer, or an integer  *)
(* plus the literal 0.5 of lattice.center), so a float is modelled by the  *)
(* integer count of its halves: 640.0 is 1280, 2.5 is 5.  All values stay  *)
(* far below 2^53, where an IEEE double holds every such number exactly    *)
(* and a product or quotient whose true value is a multiple of 0.5 is      *)
(* returned exactly.  A quotient that is not a multiple of 0.5 is only     *)
(* ever passed to math.floor / int(); FDiv truncates it to the half grid,  *)
(* which leaves its floor unchanged (the double's rounding error, 2^-53    *)
(* relative, is far smaller than the 1/cell_size gap to the next integer). *)
(***************************************************************************)
EXTENDS Integers, Sequences, FiniteSets, TLC

(* ------------------------------ bounds -------------------------------- *)

\* cell indices probed: 0..MaxIdx and a few far ones
MaxIdx == 4

\* slide dimensions probed: multiples of 100 up to 100 * MaxDimSteps
MaxDimSteps == 6

\* pyramid level counts: 1..MaxLevelCount (and the 18 of a real slide)
MaxLevelCount == 6

\* check_alignment called directly: num_samples in 0..MaxSamples
MaxSamples == 6

\* check_alignment called directly: slide sides 128 * k, k in 0..MaxVerDimSteps
MaxVerDimSteps == 6

\* the creation timestamp of a manifest is one of 0..MaxClock
MaxClock == 1

\* other code of the process has drawn 0..MaxSkip words from the generator
MaxSkip == 2

\* the list of slides to re-tile has 0..MaxSlides entries
MaxSlides == 3

(* --------------------------- float helpers ---------------------------- *)

\* float(n) of an integer n, in halves
ToFloat(n) == 2 * n

\* a * b of two floats (exact: one factor is always a whole number)
FMul(a, b) == (a * b) \div 2

\* a / b of two floats, truncated to the half grid
FDiv(a, b) == (2 * a) \div b

\* math.floor(a), a Python int (\div rounds down, as math.floor does)
Floor(a) == a \div 2

(* ------------------------- lattice.py (pure) -------------------------- *)

\* mutant: round() in place of math.floor
indexOf_round(x0, y0, cell_size) ==
    << (FDiv(x0, cell_size) + 1) \div 2, (FDiv(y0, cell_size) + 1) \div 2 >>

\* mutant: the two axes swapped in the result
indexOf_swapped(x0, y0, cell_size) ==
    << Floor(FDiv(y0, cell_size)), Floor(FDiv(x0, cell_size)) >>

indexOf(x0, y0, cell_size) ==
    LET i == Floor(FDiv(x0, cell_size))
        j == Floor(FDiv(y0, cell_size))
    IN  << i, j >>

\* mutant: the cell's corner, the + 0.5 forgotten
center_corner(i, j, cell_size) ==
    << FMul(ToFloat(i), cell_size), FMul(ToFloat(j), cell_size) >>

center(i, j, cell_size) ==
    LET x0 == FMul(ToFloat(i) + 1, cell_size)
        y0 == FMul(ToFloat(j) + 1, cell_size)
    IN  << x0, y0 >>

\* mutant: >= where the code has >
is_edge_cell_geq(i, j, level0_width, level0_height, cell_size) ==
    LET cell_right  == FMul(ToFloat(i + 1), cell_size)
        cell_bottom == FMul(ToFloat(j + 1), cell_size)
    IN  cell_right >= ToFloat(level0_width) \/ cell_bottom >= ToFloat(level0_height)

\* mutant: the cell's left and top edges compared instead of right and bottom
is_edge_cell_left(i, j, level0_width, level0_height, cell_size) ==
    LET cell_left == FMul(ToFloat(i), cell_size)
        cell_top  == FMul(ToFloat(j), cell_size)
    IN  cell_left > ToFloat(level0_width) \/ cell_top > ToFloat(level0_height)

is_edge_cell(i, j, level0_width, level0_height, cell_size) ==
    LET cell_left   == FMul(ToFloat(i), cell_size)
        cell_right  == FMul(ToFloat(i + 1), cell_size)
        cell_top    == FMul(ToFloat(j), cell_size)
        cell_bottom == FMul(ToFloat(j + 1), cell_size)
    IN  IF cell_right > ToFloat(level0_width) \/ cell_bottom > ToFloat(level0_height)
        THEN TRUE
        ELSE FALSE

\* mutant: round() in place of math.floor, so a half-filled cell counts
grid_dimensions_round(level0_width, level0_height, cell_size) ==
    << (FDiv(ToFloat(level0_width), cell_size) + 1) \div 2,
       (FDiv(ToFloat(level0_height), cell_size) + 1) \div 2 >>

\* mutant: math.ceil in place of math.floor, a partial cell counts
grid_dimensions_ceil(level0_width, level0_height, cell_size) ==
    << (ToFloat(level0_width) + cell_size - 1) \div cell_size,
       (ToFloat(level0_height) + cell_size - 1) \div cell_size >>

grid_dimensions(level0_width, level0_height, cell_size) ==
    LET num_cols == Floor(FDiv(ToFloat(level0_width), cell_size))
        num_rows == Floor(FDiv(ToFloat(level0_height), cell_size))
    IN  << num_cols, num_rows >>

(* ------------------ verify-alignment.py (validator) ------------------- *)

\* the supported magnifications 2.5, 5, 10, 20, 40 as floats (halves)
Zooms == {5, 10, 20, 40, 80}

\* mutant: the ratio upside down, patch_px * (Z / 40)
cell_size_for_zoom_inverse(zoom_level, patch_px) ==
    (ToFloat(patch_px) * zoom_level) \div 80

\* mutant: the zoom ignored, the 40x cell size at every zoom
cell_size_for_zoom_flat(zoom_level, patch_px) ==
    ToFloat(patch_px)

cell_size_for_zoom(zoom_level, patch_px) ==
    FMul(ToFloat(patch_px), FDiv(80, zoom_level))

\* int(a) of a float: truncation towards zero
Trunc(a) == IF a >= 0 THEN a \div 2 ELSE - ((- a) \div 2)

\* mutant: the quotient rounded to the nearest integer
validator_grid_dimensions_round(slide_w, slide_h, cell_size) ==
    << Trunc(FDiv(ToFloat(slide_w), cell_size) + 1),
       Trunc(FDiv(ToFloat(slide_h), cell_size) + 1) >>

\* AlignmentValidator.grid_dimensions: int() where the lattice has math.floor
validator_grid_dimensions(slide_w, slide_h, cell_size) ==
    LET num_cols == Trunc(FDiv(ToFloat(slide_w), cell_size))
        num_rows == Trunc(FDiv(ToFloat(slide_h), cell_size))
    IN  << num_cols, num_rows >>

\* check_cell_indices_in_bounds, one row: no issue is raised for it
cell_indices_in_bounds(i, j, num_cols, num_rows) ==
    /\ ~ (i < 0 \/ i >= num_cols)
    /\ ~ (j < 0 \/ j >= num_rows)

\* mutant: the right and bottom bounds taken as inclusive
click_within_cell_bounds_closed(i, j, click_x, click_y, cell_size) ==
    LET cell_left   == FMul(ToFloat(i), cell_size)
        cell_top    == FMul(ToFloat(j), cell_size)
        cell_right  == cell_left + cell_size
        cell_bottom == cell_top + cell_size
    IN  /\ cell_left <= click_x /\ click_x <= cell_right
        /\ cell_top <= click_y /\ click_y <= cell_bottom

\* check_click_within_cell_bounds, one row: the click lies in the bounds
\* of the cell that would be extracted
click_within_cell_bounds(i, j, click_x, click_y, cell_size) ==
    LET cell_left   == FMul(ToFloat(i), cell_size)
        cell_top    == FMul(ToFloat(j), cell_size)
        cell_right  == cell_left + cell_size
        cell_bottom == cell_top + cell_size
    IN  /\ cell_left <= click_x /\ click_x < cell_right
        /\ cell_top <= click_y /\ click_y < cell_bottom

(* ------------------------ alignment_check.py -------------------------- *)

\* cell_size = float(patch_px): at 40x the cell is the patch
check_alignment_cell_size(patch_px) == ToFloat(patch_px)

\* (i, j) in samples, for a Python list
InList(x, list) == \E k \in 1 .. Len(list) : list[k] = x

\* mutant: the list returned whole, the slice forgotten
Prefix_whole(list, n) == list

\* list[:n] for n >= 0
Prefix(list, n) == SubSeq(list, 1, IF n < Len(list) THEN n ELSE Len(list))

\* mutant: the far corners taken at max_i, max_j, one past the last cell
corner_samples_far(max_i, max_j, num_samples) ==
    IF max_i >= 2 /\ max_j >= 2 /\ num_samples >= 5
    THEN << << 0, 0 >>, << max_i, 0 >>, << 0, max_j >>, << max_i, max_j >> >>
    ELSE IF max_i >= 1 /\ max_j >= 1
         THEN << << 0, 0 >> >>
         ELSE << >>

\* _generate_samples, the corner cells (or the origin of a small grid)
corner_samples(max_i, max_j, num_samples) ==
    IF max_i >= 2 /\ max_j >= 2 /\ num_samples >= 5
    THEN << << 0, 0 >>, << max_i - 1, 0 >>, << 0, max_j - 1 >>,
            << max_i - 1, max_j - 1 >> >>
    ELSE IF max_i >= 1 /\ max_j >= 1
         THEN << << 0, 0 >> >>
         ELSE << >>

\* mutant: the center cell appended without the membership test
center_sample_always(samples, max_i, max_j) ==
    IF max_i >= 1 /\ max_j >= 1
    THEN Append(samples, << max_i \div 2, max_j \div 2 >>)
    ELSE samples

\* _generate_samples, the center cell appended unless already sampled
center_sample(samples, max_i, max_j) ==
    IF max_i >= 1 /\ max_j >= 1
    THEN LET center_i == max_i \div 2
             center_j == max_j \div 2
         IN  IF ~ InList(<< center_i, center_j >>, samples)
             THEN Append(samples, << center_i, center_j >>)
             ELSE samples
    ELSE samples

\* mutant: the attempts bound dropped from the loop's condition
fill_loop_runs_unbounded(samples, num_samples, attempts, max_attempts) ==
    Len(samples) < num_samples

\* _generate_samples line 145, the condition of the while loop
fill_loop_runs(samples, num_samples, attempts, max_attempts) ==
    Len(samples) < num_samples /\ attempts < max_attempts

\* mutant: the test inverted, a passing sample clears the verdict
update_all_passed_inverted(all_passed, passed) ==
    IF passed THEN FALSE ELSE all_passed

\* check_alignment: if not passed: all_passed = False
update_all_passed(all_passed, passed) ==
    IF ~ passed THEN FALSE ELSE all_passed

(* ------------------- alignment_check.py: random ----------------------- *)

\* random.seed(42)
SampleSeed == 42

\* the seeds the process-wide generator may carry
Seeds == {SampleSeed, 7}

\* the top ten bits of the 32-bit words the Mersenne Twister yields after
\* random.seed(42), the first 512 of them (no call modelled here draws more)
Seed42Words ==
    << 654, 114, 25, 759, 281, 250, 228, 142, 754, 104, 692, 758, 913, 558, 89, 604,
       432, 32, 30, 95, 223, 238, 517, 616, 27, 574, 203, 733, 665, 718, 558, 429,
       225, 459, 603, 284, 828, 890, 6, 777, 825, 163, 714, 432, 348, 284, 159, 220,
       980, 781, 344, 104, 94, 389, 99, 367, 867, 352, 618, 270, 826, 44, 747, 470,
       549, 127, 996, 944, 387, 80, 565, 300, 849, 643, 633, 906, 882, 370, 591, 196,
       721, 71, 46, 677, 233, 791, 296, 1008, 81, 875, 238, 887, 103, 389, 284, 464,
       650, 854, 373, 166, 379, 363, 214, 686, 273, 718, 959, 699, 663, 73, 623, 650,
       175, 546, 746, 250, 167, 473, 388, 276, 1013, 947, 655, 704, 570, 224, 701, 332,
       863, 786, 794, 57, 234, 841, 32, 824, 323, 410, 274, 67, 216, 935, 965, 580,
       897, 735, 322, 217, 671, 511, 405, 905, 936, 658, 469, 146, 271, 142, 252, 762,
       574, 551, 269, 764, 598, 438, 919, 597, 408, 370, 224, 1021, 1021, 141, 521, 505,
       93, 773, 48, 881, 112, 156, 642, 163, 811, 696, 432, 610, 65, 394, 390, 610,
       1020, 479, 541, 257, 994, 566, 881, 965, 11, 696, 738, 117, 698, 906, 549, 768,
       273, 787, 656, 348, 114, 300, 445, 161, 464, 3, 976, 739, 896, 736, 269, 995,
       512, 780, 182, 519, 934, 108, 891, 640, 305, 861, 654, 519, 623, 203, 156, 382,
       780, 165, 552, 976, 797, 944, 543, 940, 0, 613, 331, 500, 19, 114, 951, 371,
       899, 1008, 851, 826, 314, 245, 59, 246, 899, 580, 969, 80, 87, 749, 497, 835,
       70, 1001, 778, 545, 784, 128, 131, 675, 486, 969, 562, 169, 271, 540, 893, 621,
       433, 987, 216, 951, 552, 773, 747, 706, 205, 730, 319, 408, 1019, 687, 665, 382,
       448, 921, 529, 462, 123, 253, 230, 65, 346, 21, 602, 567, 235, 602, 225, 7,
       72, 724, 646, 60, 234, 69, 927, 32, 880, 338, 72, 526, 243, 285, 685, 497,
       219, 552, 135, 740, 957, 903, 584, 590, 484, 248, 803, 484, 826, 416, 194, 96,
       99, 674, 441, 362, 433, 420, 478, 884, 746, 55, 689, 669, 1007, 661, 100, 62,
       412, 745, 347, 819, 882, 111, 254, 196, 194, 549, 459, 143, 432, 187, 285, 473,
       255, 895, 945, 77, 453, 827, 882, 876, 563, 100, 51, 667, 1023, 553, 856, 15,
       992, 95, 948, 771, 869, 242, 170, 416, 497, 492, 218, 885, 410, 924, 60, 168,
       388, 2, 1008, 399, 271, 948, 802, 803, 465, 292, 433, 713, 980, 748, 1019, 802,
       569, 677, 735, 498, 158, 194, 303, 222, 991, 59, 593, 753, 555, 62, 765, 321,
       58, 51, 598, 488, 514, 941, 873, 543, 161, 58, 983, 520, 82, 871, 190, 70,
       609, 69, 691, 882, 240, 413, 122, 964, 911, 583, 252, 592, 608, 40, 634, 83,
       429, 673, 597, 578, 535, 323, 957, 267, 209, 685, 733, 321, 244, 271, 405, 134,
       687, 660, 307, 468, 323, 951, 769, 958, 74, 9, 469, 636, 1022, 576, 1020, 102 >>

\* the same after random.seed(7)
Seed7Words ==
    << 331, 970, 154, 404, 666, 49, 74, 840, 548, 96, 374, 596, 59, 931, 519, 219,
       38, 88, 444, 428, 71, 246, 92, 564, 434, 60, 846, 579, 126, 970, 228, 645,
       642, 596, 970, 63, 590, 599, 406, 50, 999, 226, 47, 570, 879, 136, 296, 429,
       147, 553, 120, 584, 315, 573, 835, 698, 185, 105, 595, 584, 654, 192, 381, 99,
       560, 729, 64, 577, 61, 633, 210, 508, 696, 544, 437, 795, 321, 476, 599, 945,
       464, 370, 306, 254, 813, 184, 715, 798, 249, 83, 588, 307, 537, 506, 896, 351,
       746, 459, 294, 623, 1003, 74, 120, 524, 428, 168, 775, 350, 155, 955, 500, 431,
       40, 985, 684, 79, 782, 571, 586, 808, 896, 837, 321, 348, 711, 358, 608, 508,
       593, 816, 467, 70, 860, 95, 967, 276, 485, 713, 680, 66, 62, 748, 718, 317,
       662, 591, 1016, 697, 841, 456, 291, 733, 395, 908, 684, 355, 23, 963, 472, 363,
       172, 625, 119, 505, 60, 223, 786, 294, 132, 756, 253, 407, 400, 938, 892, 508,
       82, 170, 459, 411, 562, 284, 904, 140, 838, 440, 884, 563, 285, 723, 425, 1010,
       367, 699, 905, 389, 980, 236, 154, 84, 180, 154, 237, 674, 238, 12, 496, 851,
       603, 186, 269, 288, 4, 149, 429, 547, 378, 624, 579, 326, 975, 128, 707, 879,
       527, 973, 632, 670, 692, 757, 55, 467, 921, 891, 798, 974, 895, 696, 817, 572,
       401, 407, 408, 403, 106, 493, 649, 410, 63, 195, 68, 1008, 213, 451, 166, 112,
       348, 615, 53, 104, 0, 580, 154, 549, 103, 971, 372, 628, 26, 72, 895, 212,
       628, 385, 152, 649, 258, 978, 355, 616, 372, 485, 125, 118, 869, 499, 1016, 1001,
       477, 491, 495, 319, 87, 147, 104, 767, 350, 758, 271, 490, 848, 708, 165, 528,
       23, 210, 973, 974, 540, 370, 150, 706, 556, 936, 27, 776, 540, 305, 1001, 658,
       884, 93, 712, 865, 267, 530, 375, 930, 171, 364, 790, 228, 545, 554, 797, 514,
       337, 651, 228, 627, 830, 807, 1008, 776, 873, 199, 825, 245, 837, 410, 757, 822,
       232, 204, 530, 504, 364, 748, 29, 1013, 28, 809, 286, 483, 265, 198, 709, 619,
       979, 352, 457, 827, 959, 740, 1011, 357, 977, 997, 373, 82, 225, 104, 232, 481,
       201, 345, 209, 494, 639, 1008, 921, 624, 860, 1, 490, 931, 668, 352, 818, 658,
       86, 854, 676, 122, 931, 397, 801, 728, 768, 204, 489, 910, 182, 444, 808, 651,
       340, 88, 820, 968, 994, 739, 405, 474, 411, 761, 969, 86, 742, 162, 174, 1016,
       130, 28, 154, 604, 926, 476, 825, 671, 149, 626, 846, 610, 1003, 485, 673, 959,
       358, 159, 561, 561, 134, 21, 14, 818, 994, 743, 665, 105, 539, 767, 956, 142,
       444, 1010, 892, 199, 845, 894, 216, 28, 257, 217, 299, 513, 246, 782, 600, 333,
       265, 557, 429, 854, 134, 62, 931, 757, 362, 919, 469, 678, 597, 834, 925, 529,
       430, 846, 939, 899, 513, 133, 544, 155, 536, 522, 19, 893, 450, 795, 187, 623 >>

\* the generator's state is the seed it was given and the count of words
\* drawn since; genrand_top10 is the top ten bits of its next word
genrand_top10(state) ==
    LET words == IF state.seed = SampleSeed THEN Seed42Words ELSE Seed7Words
    IN  words[(state.pos % Len(words)) + 1]

\* n.bit_length()
RECURSIVE bit_length(_)
bit_length(n) == IF n = 0 THEN 0 ELSE 1 + bit_length(n \div 2)

\* Random._randbelow(n): k = n.bit_length(); r = getrandbits(k), drawn
\* again while r >= n; getrandbits(k) is the top k bits of one word
\* (k <= 10 here: grids of up to 1023 cells a side)
RECURSIVE randbelow(_, _)
randbelow(state, n) ==
    LET r == genrand_top10(state) \div (2 ^ (10 - bit_length(n)))
        drawn == [state EXCEPT !.pos = @ + 1]
    IN  IF r < n
        THEN [value |-> r, state |-> drawn]
        ELSE randbelow(drawn, n)

\* mutant: the upper end taken as exclusive by the caller, one value too many
randint_past(state, a, b) ==
    LET below == randbelow(state, b - a + 2)
    IN  [value |-> a + below.value, state |-> below.state]

\* random.randint(a, b) = a + _randbelow(b - a + 1)
randint(state, a, b) ==
    LET below == randbelow(state, b - a + 1)
    IN  [value |-> a + below.value, state |-> below.state]

\* mutant: the generator is not seeded again, it goes on from where it is
random_seed_skipped(state, a) == state

\* random.seed(a): the generator restarts the sequence of seed a
random_seed(state, a) == [seed |-> a, pos |-> 0]

(* --------------------------- wsi_tiler.py ----------------------------- *)

\* num_samples=10 in main's call of check_alignment
MainNumSamples == 10

\* --tile-size default
DefaultTileSize == 512

\* --quality default
DefaultQuality == 80

Magnifications == {"2.5x", "5x", "10x", "20x", "40x"}

\* mutant: max_level = dz.level_count, the - 1 forgotten
calculate_magnification_levels_off(level_count) ==
    [mag \in Magnifications |->
        CASE mag = "40x"  -> level_count
          [] mag = "20x"  -> level_count - 1
          [] mag = "10x"  -> level_count - 2
          [] mag = "5x"   -> level_count - 3
          [] mag = "2.5x" -> level_count - 4]

\* dz.level_count is the only part of dz the function reads
calculate_magnification_levels(level_count) ==
    LET max_level == level_count - 1
    IN  [mag \in Magnifications |->
            CASE mag = "40x"  -> max_level
              [] mag = "20x"  -> max_level - 1
              [] mag = "10x"  -> max_level - 2
              [] mag = "5x"   -> max_level - 3
              [] mag = "2.5x" -> max_level - 4]

\* DeepZoomGenerator(slide, ...).level_count, as the openslide library
\* computes it: the level-0 size is halved, rounding up, until both sides
\* are 1; every size on the way is one level
RECURSIVE dz_level_count(_, _)
dz_level_count(width, height) ==
    IF width > 1 \/ height > 1
    THEN 1 + dz_level_count((width + 1) \div 2, (height + 1) \div 2)
    ELSE 1

\* dz.level_tiles[dzi_level]: level_tiles is a tuple of level_count entries;
\* Python accepts an index in -level_count .. level_count-1 (a negative one
\* counts from the end) and raises IndexError outside it
level_tiles_index_ok(level_count, dzi_level) ==
    - level_count <= dzi_level /\ dzi_level < level_count

\* float(text) of a property string, in 1/10000 micron; the empty set when
\* float() raises ValueError.  An optional value (Python's None or a value)
\* is the empty set or a singleton.
float_of_string(text) ==
    CASE text = "0.2528" -> {2528}
      [] text = "0.5"    -> {5000}
      [] OTHER           -> {}

\* extract_mpp: mpp_x is slide.properties.get('openslide.mpp-x')
extract_mpp(mpp_x) ==
    IF mpp_x # {}
    THEN float_of_string(CHOOSE text \in mpp_x : TRUE)
    ELSE {}

(* ---------------------------- manifest.py ----------------------------- *)

\* mutant: the verdict negated on its way into the document
create_manifest_negated(slide_id, level0_width, level0_height, mpp0, patch_px, tile_size, alignment_ok, now) ==
    [slide_id |-> slide_id, level0_width |-> level0_width,
     level0_height |-> level0_height, mpp0 |-> mpp0, patch_px |-> patch_px,
     tile_size |-> tile_size, overlap |-> 0, anchor |-> << 0, 0 >>,
     alignment_ok |-> ~ alignment_ok, created_at |-> now]

\* mutant: the overlap taken from the tile size instead of fixed at 0
create_manifest_overlap(slide_id, level0_width, level0_height, mpp0, patch_px, tile_size, alignment_ok, now) ==
    [slide_id |-> slide_id, level0_width |-> level0_width,
     level0_height |-> level0_height, mpp0 |-> mpp0, patch_px |-> patch_px,
     tile_size |-> tile_size, overlap |-> tile_size \div 2, anchor |-> << 0, 0 >>,
     alignment_ok |-> alignment_ok, created_at |-> now]

\* now: what datetime.now(timezone.utc) returns at the call
create_manifest(slide_id, level0_width, level0_height, mpp0, patch_px, tile_size, alignment_ok, now) ==
    [slide_id |-> slide_id, level0_width |-> level0_width,
     level0_height |-> level0_height, mpp0 |-> mpp0, patch_px |-> patch_px,
     tile_size |-> tile_size, overlap |-> 0, anchor |-> << 0, 0 >>,
     alignment_ok |-> alignment_ok, created_at |-> now]

(* ------------------- manifest.py: json.dump / json.load --------------- *)

\* A JSON text is held as the tree of its values, each tagged with its JSON
\* kind; an object is the sequence of its members << key, value >> in the
\* order they are written.  A text that is not valid JSON is a document cut
\* short: [t |-> "truncated"] with the members written before the cut.
json_null == [t |-> "null"]

json_bool(b) == [t |-> IF b THEN "true" ELSE "false"]

json_number(n) == [t |-> "number", n |-> n]

json_string(s) == [t |-> "string", s |-> s]

json_array(items) == [t |-> "array", items |-> items]

json_object(members) == [t |-> "object", members |-> members]

\* the keys of a manifest in the order the dict was filled: create_manifest's
\* literal, then the two fields main adds
ManifestKeys ==
    << "slide_id", "level0_width", "level0_height", "mpp0", "patch_px",
       "tile_size", "overlap", "anchor", "alignment_ok", "created_at",
       "dzi_level_count", "magnification_levels" >>

\* the keys of the magnification map in the order of its dict literal
MagnificationKeys == << "40x", "20x", "10x", "5x", "2.5x" >>

\* json's encoder on one value of a manifest: None -> null, True / False ->
\* true / false, int and float -> number, str -> string, list -> array,
\* dict -> object.  The key selects the Python type the model holds under it
\* (mpp0 is an Optional[float]: the empty set or a singleton).
json_encode(key, value) ==
    CASE key \in {"slide_id", "created_at"} -> json_string(value)
      [] key = "mpp0" ->
            IF value = {} THEN json_null
            ELSE json_number(CHOOSE x \in value : TRUE)
      [] key = "alignment_ok" -> json_bool(value)
      [] key = "anchor" ->
            json_array(<< json_number(value[1]), json_number(value[2]) >>)
      [] key = "magnification_levels" ->
            json_object([k \in 1 .. Len(MagnificationKeys) |->
                << MagnificationKeys[k], json_number(value[MagnificationKeys[k]]) >>])
      [] OTHER -> json_number(value)

\* json's decoder on one member's value: null -> None, true / false -> True /
\* False, number -> int or float, string -> str, array -> list, object -> dict
json_decode(key, token) ==
    CASE key = "mpp0" ->
            IF token.t = "null" THEN {} ELSE {token.n}
      [] token.t = "null" -> {}
      [] token.t = "true" -> TRUE
      [] token.t = "false" -> FALSE
      [] token.t = "number" -> token.n
      [] token.t = "string" -> token.s
      [] token.t = "array" ->
            [k \in 1 .. Len(token.items) |-> token.items[k].n]
      [] token.t = "object" ->
            [name \in {token.members[k][1] : k \in 1 .. Len(token.members)} |->
                LET k == CHOOSE k \in 1 .. Len(token.members) :
                             token.members[k][1] = name
                IN  token.members[k][2].n]

\* the dict of an object's members
dict_of_members(members) ==
    [key \in {members[k][1] : k \in 1 .. Len(members)} |->
        LET k == CHOOSE k \in 1 .. Len(members) : members[k][1] = key
        IN  json_decode(key, members[k][2])]

\* mutant: None-valued members skipped
json_dumps_skip_none(manifest) ==
    LET keys == SelectSeq(ManifestKeys,
                    LAMBDA key : key \in DOMAIN manifest
                                 /\ ~ (key = "mpp0" /\ manifest[key] = {}))
    IN  json_object([k \in 1 .. Len(keys) |->
            << keys[k], json_encode(keys[k], manifest[keys[k]]) >>])

\* json.dump(manifest, f, indent=2, ensure_ascii=False): the text written
json_dumps(manifest) ==
    LET keys == SelectSeq(ManifestKeys, LAMBDA key : key \in DOMAIN manifest)
    IN  json_object([k \in 1 .. Len(keys) |->
            << keys[k], json_encode(keys[k], manifest[keys[k]]) >>])

\* mutant: a lenient parser that returns what it read before the cut
json_loads_lenient(text) ==
    [raised |-> "", value |-> {dict_of_members(text.members)}]

\* json.load(f): the dict of a valid text, JSONDecodeError on any other
\* (raised names the exception, "" when the call returned)
json_loads(text) ==
    IF text.t = "object"
    THEN [raised |-> "", value |-> {dict_of_members(text.members)}]
    ELSE [raised |-> "JSONDecodeError", value |-> {}]

\* mutant: open(..., 'x'), a manifest.json already there is left alone
save_manifest_exclusive(directory, manifest) ==
    IF directory.manifest_file # << >>
    THEN directory
    ELSE [directory EXCEPT !.exists = TRUE,
                           !.manifest_file = << json_dumps(manifest) >>]

\* save_manifest: the directory is created if absent, manifest.json is
\* opened for writing (an existing one is emptied) and the text written
save_manifest(directory, manifest) ==
    [directory EXCEPT !.exists = TRUE,
                      !.manifest_file = << json_dumps(manifest) >>]

\* load_manifest: open raises FileNotFoundError on a missing file,
\* json.load raises on an invalid text; nothing is written
load_manifest(directory) ==
    IF directory.manifest_file = << >>
    THEN [raised |-> "FileNotFoundError", value |-> {}]
    ELSE json_loads(directory.manifest_file[1])

(* ------------------------------ state --------------------------------- *)

VARIABLES
    probe,        \* the last call made by the pure-function harness
    pc,           \* where the running program stands
    args,         \* the parsed command line of wsi_tiler
    main,         \* the locals of wsi_tiler.main
    disk,         \* the output directory: level directories, manifest.json
    exit_status,  \* {} while running, {0} or {1} once the process has ended
    ca,           \* the frame of check_alignment and of its _generate_samples
    LIBVIPS_AVAILABLE,  \* whether import pyvips succeeded
    rng,          \* the process-wide generator of the random module
    retile        \* the locals of retile_and_upload.main

vars == << probe, pc, args, main, disk, exit_status, ca, LIBVIPS_AVAILABLE, rng, retile >>

\* the state of everything but the harness, before anything has run
IdleArgs == [patch_px |-> 256, tile_size |-> DefaultTileSize, quality |-> DefaultQuality]

IdleMain ==
    [slide_id |-> "", level0_width |-> 0, level0_height |-> 0, mpp0 |-> {},
     dz_level_count |-> 0, mag_levels |-> calculate_magnification_levels(0),
     level_count |-> 0, alignment_ok |-> {}]

\* the output directory before the run: not there
EmptyDisk == [exists |-> FALSE, level_dirs |-> 0, manifest_file |-> << >>]

\* the generator as seeded for the samples, nothing drawn yet
IdleRng == [seed |-> SampleSeed, pos |-> 0]

\* the states the generator may be left in by other code of the process
RngStates == [seed : Seeds, pos : 0 .. MaxSkip]

IdleRetile == [slide_ids |-> << >>, i |-> 0, results |-> << >>, log |-> << >>]

IdleCa ==
    [caller |-> "", level0_width |-> 0, level0_height |-> 0, patch_px |-> 0,
     num_samples |-> 0, cell_size |-> 0, max_i |-> 0, max_j |-> 0,
     samples |-> << >>, attempts |-> 0, max_attempts |-> 0, idx |-> 0,
     all_passed |-> TRUE, rows |-> << >>, ret |-> {}]

(* ---------------------- lattice self-test harness --------------------- *)

\* cell sizes of the operating range 64..8192 (whole numbers of pixels)
CellSizes == {64, 100, 256, 512, 4096, 8192}

PatchSizes == {256, 512}

IdxSet == (0 .. MaxIdx) \cup {30, 31, 38, 39, 999, 65000}

DimSet == {100 * k : k \in 0 .. MaxDimSteps} \cup {8000, 10000}

InitPure ==
    /\ probe = [op |-> "none"]
    /\ pc = "idle"
    /\ args = IdleArgs
    /\ main = IdleMain
    /\ disk = EmptyDisk
    /\ exit_status = {}
    /\ ca = IdleCa
    /\ LIBVIPS_AVAILABLE = FALSE
    /\ rng = IdleRng
    /\ retile = IdleRetile

rest == << pc, args, main, disk, exit_status, ca, LIBVIPS_AVAILABLE, rng, retile >>

\* the harness makes one call (or one round trip) per run

\* x0, y0 = center(i, j, cell_size); center takes any integers
CallCenter ==
    /\ probe.op = "none"
    /\ \E i \in IdxSet \cup {-2, -1}, j \in IdxSet \cup {-2, -1}, c \in CellSizes :
        probe' = [op |-> "center", i |-> i, j |-> j, cell_size |-> ToFloat(c),
                  ret |-> center(i, j, ToFloat(c))]
    /\ UNCHANGED rest

\* i_back, j_back = indexOf(x0, y0, cell_size) on the center just computed
CallIndexOfCenter ==
    /\ probe.op = "center"
    /\ probe' = [op |-> "roundtrip", i |-> probe.i, j |-> probe.j,
                 cell_size |-> probe.cell_size, xy |-> probe.ret,
                 ret |-> indexOf(probe.ret[1], probe.ret[2], probe.cell_size)]
    /\ UNCHANGED rest

CallGridDimensions ==
    /\ probe.op = "none"
    /\ \E w \in DimSet, h \in DimSet, c \in CellSizes :
        probe' = [op |-> "grid_dimensions", w |-> w, h |-> h, cell_size |-> ToFloat(c),
                  ret |-> grid_dimensions(w, h, ToFloat(c))]
    /\ UNCHANGED rest

CallIsEdgeCell ==
    /\ probe.op = "none"
    /\ \E i \in IdxSet, j \in IdxSet, w \in DimSet, h \in DimSet, c \in CellSizes :
        probe' = [op |-> "is_edge_cell", i |-> i, j |-> j, w |-> w, h |-> h,
                  cell_size |-> ToFloat(c),
                  ret |-> is_edge_cell(i, j, w, h, ToFloat(c))]
    /\ UNCHANGED rest

CallCellSizeForZoom ==
    /\ probe.op = "none"
    /\ \E z \in Zooms, p \in PatchSizes :
        probe' = [op |-> "cell_size_for_zoom", zoom_level |-> z, patch_px |-> p,
                  ret |-> cell_size_for_zoom(z, p)]
    /\ UNCHANGED rest

\* the validator calls cell_size_for_zoom once per logged row: a second
\* call with the same patch_px and another row's zoom level
CallCellSizeForZoomAgain ==
    /\ probe.op = "cell_size_for_zoom"
    /\ \E z \in Zooms :
        probe' = [op |-> "cell_size_pair", patch_px |-> probe.patch_px,
                  zoom1 |-> probe.zoom_level, ret1 |-> probe.ret,
                  zoom2 |-> z, ret2 |-> cell_size_for_zoom(z, probe.patch_px)]
    /\ UNCHANGED rest

\* calculate_magnification_levels on a pyramid of level_count levels
LevelCounts == (1 .. MaxLevelCount) \cup {18}

CallCalculateMagnificationLevels ==
    /\ probe.op = "none"
    /\ \E n \in LevelCounts :
        probe' = [op |-> "calculate_magnification_levels", level_count |-> n,
                  ret |-> calculate_magnification_levels(n)]
    /\ UNCHANGED rest

\* indices of logged rows: around the origin and around the last column
RowIdxSet == (-1 .. MaxIdx) \cup {38, 39}

\* a logged click near cell (i, j): on a cell boundary or half a pixel off
\* it, or half a cell further (offsets in halves of a pixel)
ClickOffsets(cell_size) == {-1, 0, 1, cell_size \div 2}

\* the validator checks one cell_click row against the cell bounds; the
\* lattice's indexOf is applied to the same click
CallCheckClick ==
    /\ probe.op = "none"
    /\ \E z \in Zooms, p \in PatchSizes, i \in 0 .. MaxIdx, j \in 0 .. MaxIdx,
          ki \in 0 .. 1, kj \in 0 .. 1 :
          LET cell_size == cell_size_for_zoom(z, p)
          IN  \E dx \in ClickOffsets(cell_size), dy \in ClickOffsets(cell_size) :
                LET click_x == FMul(ToFloat(i + ki), cell_size) + dx
                    click_y == FMul(ToFloat(j + kj), cell_size) + dy
                IN  probe' = [op |-> "check_click", i |-> i, j |-> j,
                              zoom_level |-> z, patch_px |-> p,
                              cell_size |-> cell_size,
                              click_x |-> click_x, click_y |-> click_y,
                              accepted |-> click_within_cell_bounds(
                                               i, j, click_x, click_y, cell_size),
                              ret |-> indexOf(click_x, click_y, cell_size)]
    /\ UNCHANGED rest

\* the validator checks one row's cell indices against its own grid
\* dimensions of the manifest's slide
CallCheckCellIndices ==
    /\ probe.op = "none"
    /\ \E z \in Zooms, p \in PatchSizes, i \in RowIdxSet, j \in RowIdxSet,
          w \in DimSet, h \in DimSet :
          LET cell_size == cell_size_for_zoom(z, p)
              dims == validator_grid_dimensions(w, h, cell_size)
          IN  probe' = [op |-> "check_cell_indices", i |-> i, j |-> j,
                        zoom_level |-> z, patch_px |-> p, w |-> w, h |-> h,
                        cell_size |-> cell_size, dims |-> dims,
                        accepted |-> cell_indices_in_bounds(i, j, dims[1], dims[2])]
    /\ UNCHANGED rest

NextPure ==
    \/ CallCheckClick
    \/ CallCheckCellIndices
    \/ CallCalculateMagnificationLevels
    \/ CallCenter
    \/ CallIndexOfCenter
    \/ CallGridDimensions
    \/ CallIsEdgeCell
    \/ CallCellSizeForZoom
    \/ CallCellSizeForZoomAgain

SpecPure == InitPure /\ [][NextPure]_vars

(* ------------- alignment_check.py: check_alignment, stepwise ---------- *)

\* lines 35-53: cell size, grid dimensions, report header, the call of
\* _generate_samples
CA_Enter ==
    /\ pc = "check_alignment"
    /\ LET cell_size == check_alignment_cell_size(ca.patch_px)
           dims == grid_dimensions(ca.level0_width, ca.level0_height, cell_size)
       IN  ca' = [ca EXCEPT !.cell_size = cell_size,
                            !.max_i = dims[1], !.max_j = dims[2]]
    /\ pc' = "generate_samples"
    /\ UNCHANGED << probe, args, main, disk, exit_status, LIBVIPS_AVAILABLE, rng, retile >>

\* _generate_samples lines 117-143: the early return on an empty grid, the
\* corner and center cells, random.seed(42) and the loop's counters
GS_Start ==
    /\ pc = "generate_samples"
    /\ IF ca.max_i <= 0 \/ ca.max_j <= 0
       THEN /\ ca' = [ca EXCEPT !.samples = << >>, !.idx = 0, !.all_passed = TRUE]
            /\ rng' = rng
            /\ pc' = "verify"
       ELSE /\ ca' = [ca EXCEPT
                     !.samples = center_sample(
                         corner_samples(ca.max_i, ca.max_j, ca.num_samples),
                         ca.max_i, ca.max_j),
                     !.attempts = 0,
                     !.max_attempts = ca.num_samples * 10]
            /\ rng' = random_seed(rng, SampleSeed)
            /\ pc' = "fill"
    /\ UNCHANGED << probe, args, main, disk, exit_status, LIBVIPS_AVAILABLE, retile >>

\* lines 145-152, one turn of the while loop: random.randint draws a column
\* and then a row of the grid, the cell is appended unless already sampled
GS_Draw ==
    /\ pc = "fill"
    /\ fill_loop_runs(ca.samples, ca.num_samples, ca.attempts, ca.max_attempts)
    /\ LET draw_i == randint(rng, 0, ca.max_i - 1)
           draw_j == randint(draw_i.state, 0, ca.max_j - 1)
           i == draw_i.value
           j == draw_j.value
       IN  /\ ca' = [ca EXCEPT
                      !.samples = IF ~ InList(<< i, j >>, ca.samples)
                                  THEN Append(ca.samples, << i, j >>)
                                  ELSE ca.samples,
                      !.attempts = ca.attempts + 1]
           /\ rng' = draw_j.state
    /\ UNCHANGED << probe, pc, args, main, disk, exit_status, LIBVIPS_AVAILABLE, retile >>

\* line 154 and check_alignment lines 53-61: the loop has ended, the list
\* is cut to num_samples and returned; all_passed = True
GS_Return ==
    /\ pc = "fill"
    /\ ~ fill_loop_runs(ca.samples, ca.num_samples, ca.attempts, ca.max_attempts)
    /\ ca' = [ca EXCEPT !.samples = Prefix(ca.samples, ca.num_samples),
                        !.idx = 0, !.all_passed = TRUE]
    /\ pc' = "verify"
    /\ UNCHANGED << probe, args, main, disk, exit_status, LIBVIPS_AVAILABLE, rng, retile >>

\* lines 62-81, one turn of the for loop: the next sample's round trip
CA_Sample ==
    /\ pc = "verify"
    /\ ca.idx < Len(ca.samples)
    /\ LET i == ca.samples[ca.idx + 1][1]
           j == ca.samples[ca.idx + 1][2]
           xy == center(i, j, ca.cell_size)
           back == indexOf(xy[1], xy[2], ca.cell_size)
           passed == (back[1] = i) /\ (back[2] = j)
       IN  ca' = [ca EXCEPT
                    !.all_passed = update_all_passed(ca.all_passed, passed),
                    !.rows = Append(ca.rows,
                        [idx |-> ca.idx + 1, i |-> i, j |-> j, x0 |-> xy[1],
                         y0 |-> xy[2], i_back |-> back[1], j_back |-> back[2],
                         status |-> IF passed THEN "PASS" ELSE "FAIL"]),
                    !.idx = ca.idx + 1]
    /\ UNCHANGED << probe, pc, args, main, disk, exit_status, LIBVIPS_AVAILABLE, rng, retile >>

\* lines 83-97: return (all_passed, report); in main (wsi_tiler lines
\* 311-318) the verdict is bound to alignment_ok
CA_Return ==
    /\ pc = "verify"
    /\ ca.idx = Len(ca.samples)
    /\ ca' = [ca EXCEPT !.ret = {ca.all_passed}]
    /\ IF ca.caller = "main"
       THEN /\ main' = [main EXCEPT !.alignment_ok = {ca.all_passed}]
            /\ pc' = "create_manifest"
       ELSE /\ main' = main
            /\ pc' = "returned"
    /\ UNCHANGED << probe, args, disk, exit_status, LIBVIPS_AVAILABLE, rng, retile >>

\* check_alignment called on its own, as the module's self-test does
VerDimSet == {128 * k : k \in 0 .. MaxVerDimSteps} \cup {8000, 10000}

InitVerifier ==
    /\ probe = [op |-> "none"]
    /\ pc = "check_alignment"
    /\ args = IdleArgs
    /\ main = IdleMain
    /\ disk = EmptyDisk
    /\ exit_status = {}
    /\ LIBVIPS_AVAILABLE = FALSE
    /\ rng \in RngStates
    /\ retile = IdleRetile
    /\ \E w \in VerDimSet, h \in VerDimSet, p \in PatchSizes, n \in 0 .. MaxSamples :
          ca = [IdleCa EXCEPT !.caller = "test", !.level0_width = w,
                              !.level0_height = h, !.patch_px = p,
                              !.num_samples = n]

\* other code of the process uses the generator between two calls: it is
\* left seeded otherwise, or further on in its sequence
UseRandomElsewhere ==
    /\ pc = "returned" /\ probe.op = "none"
    /\ \E state \in RngStates \ {rng} : rng' = state
    /\ UNCHANGED << probe, pc, args, main, disk, exit_status, ca, LIBVIPS_AVAILABLE, retile >>

\* check_alignment is called a second time with the arguments of the first
\* call, whose result is kept for comparison
CA_CallAgain ==
    /\ pc = "returned" /\ probe.op = "none"
    /\ probe' = [op |-> "check_alignment", samples |-> ca.samples,
                 rows |-> ca.rows, ret |-> ca.ret]
    /\ ca' = [IdleCa EXCEPT !.caller = ca.caller,
                            !.level0_width = ca.level0_width,
                            !.level0_height = ca.level0_height,
                            !.patch_px = ca.patch_px,
                            !.num_samples = ca.num_samples]
    /\ pc' = "check_alignment"
    /\ UNCHANGED << args, main, disk, exit_status, LIBVIPS_AVAILABLE, rng, retile >>

NextVerifier ==
    \/ UseRandomElsewhere
    \/ CA_CallAgain
    \/ CA_Enter
    \/ GS_Start
    \/ GS_Draw
    \/ GS_Return
    \/ CA_Sample
    \/ CA_Return

SpecVerifier == InitVerifier /\ [][NextVerifier]_vars

\* the while loop of _generate_samples is sequential code that keeps
\* running: a turn, or the exit, that stays possible is taken
SpecVerifierLive ==
    SpecVerifier /\ WF_vars(GS_Draw) /\ WF_vars(GS_Return)

(* ------------------------- claims: lattice ---------------------------- *)

\* C1 (round-trip law): for every cell (i, j) with i, j >= 0 and every
\* cell size of the operating range 64..8192, indexOf applied to
\* center(i, j, cell_size) returns exactly (i, j).
C1_RoundTrip ==
    probe.op = "roundtrip" => probe.ret = << probe.i, probe.j >>

C1_Witness ==
    /\ probe.op = "roundtrip"
    /\ probe.i = 999 /\ probe.j = 3 /\ probe.cell_size = ToFloat(8192)
    /\ probe.ret = << 999, 3 >>

\* 40 / Z for the supported zoom levels Z (Z in halves)
ZoomMultiplier(z) ==
    CASE z = 5 -> 16 [] z = 10 -> 8 [] z = 20 -> 4 [] z = 40 -> 2 [] z = 80 -> 1

\* C6: cell_size_for_zoom(Z, patch_px) is patch_px * (40 / Z), that is
\* patch_px times 16, 8, 4, 2, 1 at 2.5x, 5x, 10x, 20x, 40x; at 40x it is
\* patch_px itself, the cell size check_alignment uses.
C6_CellSizeForZoom ==
    probe.op = "cell_size_for_zoom" =>
        /\ probe.ret = ToFloat(probe.patch_px * ZoomMultiplier(probe.zoom_level))
        /\ probe.zoom_level = 80 =>
               /\ probe.ret = ToFloat(probe.patch_px)
               /\ probe.ret = check_alignment_cell_size(probe.patch_px)

C6_Witness ==
    /\ probe.op = "cell_size_for_zoom"
    /\ probe.zoom_level = 5 /\ probe.patch_px = 256
    /\ probe.ret = ToFloat(4096)

\* C7 (grid monotonicity): for a fixed patch_px and supported zoom levels
\* Z1 > Z2, cell_size_for_zoom(Z1, patch_px) < cell_size_for_zoom(Z2, patch_px).
C7_GridMonotonic ==
    (probe.op = "cell_size_pair" /\ probe.zoom1 > probe.zoom2)
        => probe.ret1 < probe.ret2

C7_Witness ==
    /\ probe.op = "cell_size_pair"
    /\ probe.zoom1 = 80 /\ probe.zoom2 = 5
    /\ probe.ret1 < probe.ret2

\* C8: grid_dimensions(width, height, cell_size) is (floor(width / cell_size),
\* floor(height / cell_size)): the largest counts of whole cells that fit;
\* grid_dimensions(10000, 8000, 256) = (39, 31).
C8_GridDimensions ==
    probe.op = "grid_dimensions" =>
        /\ probe.ret[1] * probe.cell_size <= ToFloat(probe.w)
        /\ ToFloat(probe.w) < (probe.ret[1] + 1) * probe.cell_size
        /\ probe.ret[2] * probe.cell_size <= ToFloat(probe.h)
        /\ ToFloat(probe.h) < (probe.ret[2] + 1) * probe.cell_size
        /\ (probe.w = 10000 /\ probe.h = 8000 /\ probe.cell_size = ToFloat(256))
               => probe.ret = << 39, 31 >>

C8_Witness ==
    /\ probe.op = "grid_dimensions"
    /\ probe.w = 10000 /\ probe.h = 8000 /\ probe.cell_size = ToFloat(256)
    /\ probe.ret = << 39, 31 >>

\* C9: center(i, j, cell_size) is ((i + 0.5) * cell_size, (j + 0.5) * cell_size);
\* center(2, 3, 256) = (640.0, 896.0).  (Both sides doubled: x0 and cell_size
\* are counted in halves.)
C9_Center ==
    probe.op = "center" =>
        /\ 2 * probe.ret[1] = (2 * probe.i + 1) * probe.cell_size
        /\ 2 * probe.ret[2] = (2 * probe.j + 1) * probe.cell_size
        /\ (probe.i = 2 /\ probe.j = 3 /\ probe.cell_size = ToFloat(256))
               => probe.ret = << 1280, 1792 >>

C9_Witness ==
    /\ probe.op = "center"
    /\ probe.i = 2 /\ probe.j = 3 /\ probe.cell_size = ToFloat(256)
    /\ probe.ret = << 1280, 1792 >>

\* C10: is_edge_cell(i, j, width, height, cell_size) is True exactly when
\* (i + 1) * cell_size > width or (j + 1) * cell_size > height;
\* is_edge_cell(39, 31, 10000, 8000, 256) is True and
\* is_edge_cell(0, 0, 10000, 8000, 256) is False.
C10_IsEdgeCell ==
    probe.op = "is_edge_cell" =>
        /\ probe.ret <=> \/ (probe.i + 1) * probe.cell_size > ToFloat(probe.w)
                         \/ (probe.j + 1) * probe.cell_size > ToFloat(probe.h)
        /\ (probe.w = 10000 /\ probe.h = 8000 /\ probe.cell_size = ToFloat(256))
               => /\ (probe.i = 39 /\ probe.j = 31) => probe.ret = TRUE
                  /\ (probe.i = 0 /\ probe.j = 0) => probe.ret = FALSE

C10_Witness ==
    /\ probe.op = "is_edge_cell"
    /\ probe.i = 39 /\ probe.j = 31
    /\ probe.w = 10000 /\ probe.h = 8000 /\ probe.cell_size = ToFloat(256)
    /\ probe.ret = TRUE

\* C24: edge cells are exactly the cells outside the complete grid: with
\* (max_i, max_j) = grid_dimensions(width, height, cell_size) and i, j >= 0,
\* is_edge_cell(i, j, ...) is False when i <= max_i - 1 and j <= max_j - 1
\* and True when i >= max_i or j >= max_j.
C24_EdgeIffOutsideGrid ==
    (probe.op = "is_edge_cell" /\ probe.i >= 0 /\ probe.j >= 0) =>
        LET dims == grid_dimensions(probe.w, probe.h, probe.cell_size)
        IN  /\ (probe.i <= dims[1] - 1 /\ probe.j <= dims[2] - 1)
                  => probe.ret = FALSE
            /\ (probe.i >= dims[1] \/ probe.j >= dims[2])
                  => probe.ret = TRUE

C24_Witness ==
    /\ probe.op = "is_edge_cell"
    /\ probe.w = 10000 /\ probe.h = 8000 /\ probe.cell_size = ToFloat(256)
    /\ probe.i = 39 /\ probe.j = 30
    /\ grid_dimensions(probe.w, probe.h, probe.cell_size) = << 39, 31 >>
    /\ probe.ret = TRUE

C29_ValidatorGridAgrees ==
    probe.op = "check_cell_indices" =>
        LET dims == grid_dimensions(probe.w, probe.h, probe.cell_size)
        IN  /\ probe.dims = dims
            /\ probe.accepted <=>
                  /\ 0 <= probe.i /\ probe.i < dims[1]
                  /\ 0 <= probe.j /\ probe.j < dims[2]

C29_Witness ==
    /\ probe.op = "check_cell_indices"
    /\ probe.w = 10000 /\ probe.h = 8000
    /\ probe.zoom_level = 80 /\ probe.patch_px = 256
    /\ probe.dims = << 39, 31 >>
    /\ probe.i = 38 /\ probe.j = 4 /\ probe.accepted

(* --------------------- wsi_tiler.py: main, stepwise ------------------- *)

SlideIds == {"test"}

\* level-0 sides of the slides tiled, from one pixel up
SlideDims == {1, 2, 3, 6, 16, 300, 600, 800}

\* slide.properties.get('openslide.mpp-x'): absent, a number, not a number
MppProperties == {{}, {"0.2528"}, {"n/a"}}

\* mutant: the error paths end the process with status 0
Exit_success(status) ==
    /\ exit_status' = {0}
    /\ pc' = "exit"

\* mutant: a failed run starts over instead of ending the process
Exit_retry(status) ==
    IF status = 0
    THEN exit_status' = {0} /\ pc' = "exit"
    ELSE exit_status' = exit_status /\ pc' = "main"

\* the process ends with this status (sys.exit, or an exception nobody catches)
Exit(status) ==
    /\ exit_status' = {status}
    /\ pc' = "exit"

InitTiler ==
    /\ probe = [op |-> "none"]
    /\ pc = "main"
    /\ \E p \in PatchSizes : args = [IdleArgs EXCEPT !.patch_px = p]
    /\ main = IdleMain
    /\ disk = EmptyDisk
    /\ exit_status = {}
    /\ ca = IdleCa
    /\ LIBVIPS_AVAILABLE \in BOOLEAN
    /\ rng \in RngStates
    /\ retile = IdleRetile

\* lines 233-258: the input file must exist (sys.exit(1) otherwise); slide_id;
\* the output directory is created, or the OSError of mkdir ends the process
Main_CheckInput ==
    /\ pc = "main"
    /\ \E exists \in BOOLEAN, mkdir_ok \in BOOLEAN :
          IF ~ exists \/ ~ mkdir_ok
          THEN Exit(1) /\ UNCHANGED << main, disk >>
          ELSE /\ \E id \in SlideIds : main' = [main EXCEPT !.slide_id = id]
               /\ disk' = [disk EXCEPT !.exists = TRUE]
               /\ pc' = "open_slide"
               /\ exit_status' = exit_status
    /\ UNCHANGED << probe, args, ca, LIBVIPS_AVAILABLE, rng, retile >>

\* lines 260-278: open the slide (sys.exit(1) on OpenSlideError), read its
\* dimensions and mpp
Main_OpenSlide ==
    /\ pc = "open_slide"
    /\ \E opened \in BOOLEAN :
          IF ~ opened
          THEN Exit(1) /\ main' = main
          ELSE /\ \E w \in SlideDims, h \in SlideDims, mpp_x \in MppProperties :
                    main' = [main EXCEPT !.level0_width = w, !.level0_height = h,
                                         !.mpp0 = extract_mpp(mpp_x)]
               /\ pc' = "deepzoom"
               /\ exit_status' = exit_status
    /\ UNCHANGED << probe, args, disk, ca, LIBVIPS_AVAILABLE, rng, retile >>

\* lines 280-284: dz = DeepZoomGenerator(slide, ...)
Main_DeepZoom ==
    /\ pc = "deepzoom"
    /\ main' = [main EXCEPT !.dz_level_count =
                    dz_level_count(main.level0_width, main.level0_height)]
    /\ pc' = "mag_levels"
    /\ UNCHANGED << probe, args, disk, exit_status, ca, LIBVIPS_AVAILABLE, rng, retile >>

\* lines 286-292: the magnification map, then dz.level_tiles[dzi_level] for
\* each of the five levels; an IndexError there ends the process
Main_MagLevels ==
    /\ pc = "mag_levels"
    /\ LET mag_levels == calculate_magnification_levels(main.dz_level_count)
       IN  /\ main' = [main EXCEPT !.mag_levels = mag_levels]
           /\ IF \A mag \in Magnifications :
                    level_tiles_index_ok(main.dz_level_count, mag_levels[mag])
              THEN pc' = "generate_tiles" /\ exit_status' = exit_status
              ELSE Exit(1)
    /\ UNCHANGED << probe, args, disk, ca, LIBVIPS_AVAILABLE, rng, retile >>

\* lines 294-304: the pyramid is generated.  libvips writes its levels and
\* the level directories of the output directory are counted (a mismatch
\* with dz.level_count is only warned about); OpenSlide writes levels
\* 0 .. dz.level_count - 1.  An error of either backend ends the process.
Main_GenerateTiles ==
    /\ pc = "generate_tiles"
    /\ \/ /\ LIBVIPS_AVAILABLE
          /\ \E level_count \in 1 .. MaxLevelCount :
                /\ disk' = [disk EXCEPT !.level_dirs = level_count]
                /\ main' = [main EXCEPT !.level_count = level_count]
          /\ pc' = "call_check" /\ exit_status' = exit_status
       \/ /\ LIBVIPS_AVAILABLE
          /\ Exit(1)
          /\ UNCHANGED << disk, main >>
       \/ /\ ~ LIBVIPS_AVAILABLE
          /\ disk' = [disk EXCEPT !.level_dirs = main.dz_level_count]
          /\ pc' = "call_check" /\ exit_status' = exit_status
          /\ main' = main
       \/ /\ ~ LIBVIPS_AVAILABLE
          /\ \E written \in 0 .. main.dz_level_count - 1 :
                disk' = [disk EXCEPT !.level_dirs = written]
          /\ Exit(1)
          /\ main' = main
    /\ UNCHANGED << probe, args, ca, LIBVIPS_AVAILABLE, rng, retile >>

\* lines 306-316: check_alignment(level0_width, level0_height, patch_px, 10)
Main_CallCheckAlignment ==
    /\ pc = "call_check"
    /\ ca' = [IdleCa EXCEPT !.caller = "main",
                            !.level0_width = main.level0_width,
                            !.level0_height = main.level0_height,
                            !.patch_px = args.patch_px,
                            !.num_samples = MainNumSamples]
    /\ pc' = "check_alignment"
    /\ UNCHANGED << probe, args, main, disk, exit_status, LIBVIPS_AVAILABLE, rng, retile >>

\* lines 320-340: create_manifest, the two DZI fields, save_manifest (into
\* the directory this run created and has just written the tiles to)
Main_SaveManifest ==
    /\ pc = "create_manifest"
    /\ \E now \in 0 .. MaxClock, alignment_ok \in main.alignment_ok :
          LET manifest_data ==
                  create_manifest(main.slide_id, main.level0_width,
                                  main.level0_height, main.mpp0, args.patch_px,
                                  args.tile_size, alignment_ok, now)
                  @@ [dzi_level_count |-> main.dz_level_count,
                      magnification_levels |-> main.mag_levels]
          IN  disk' = save_manifest(disk, manifest_data)
    /\ pc' = "summary"
    /\ UNCHANGED << probe, args, main, exit_status, ca, LIBVIPS_AVAILABLE, rng, retile >>

\* lines 342-362: the summary is printed and main returns
Main_Summary ==
    /\ pc = "summary"
    /\ Exit(0)
    /\ UNCHANGED << probe, args, main, disk, ca, LIBVIPS_AVAILABLE, rng, retile >>

NextTiler ==
    \/ Main_CheckInput
    \/ Main_OpenSlide
    \/ Main_DeepZoom
    \/ Main_MagLevels
    \/ Main_GenerateTiles
    \/ Main_CallCheckAlignment
    \/ CA_Enter
    \/ GS_Start
    \/ GS_Draw
    \/ GS_Return
    \/ CA_Sample
    \/ CA_Return
    \/ Main_SaveManifest
    \/ Main_Summary

SpecTiler == InitTiler /\ [][NextTiler]_vars

\* the steps of the tiler pipeline in program order
PipelineOrder ==
    << "main", "open_slide", "deepzoom", "mag_levels", "generate_tiles",
       "call_check", "check_alignment", "generate_samples", "fill", "verify",
       "create_manifest", "summary", "exit" >>

StepOf(label) == CHOOSE k \in 1 .. Len(PipelineOrder) : PipelineOrder[k] = label

\* the pyramid of this run is complete on disk
TilesGenerated ==
    IF LIBVIPS_AVAILABLE
    THEN disk.level_dirs >= 1 /\ main.level_count = disk.level_dirs
    ELSE disk.level_dirs = main.dz_level_count /\ disk.level_dirs >= 1

\* C25: in every run of the tiler pipeline manifest.json is written at most
\* once, and only as the last step after tile generation and the alignment
\* check have both completed; a run that aborts at any earlier step writes
\* no manifest and is not retried or resumed.
C25_ManifestWrittenOnceLast ==
    [][/\ StepOf(pc') >= StepOf(pc)
       /\ pc # "exit"
       /\ pc = "create_manifest" => pc' = "summary"
       /\ disk'.manifest_file # disk.manifest_file =>
             /\ pc = "create_manifest"
             /\ disk.manifest_file = << >>
             /\ TilesGenerated
             /\ ca.ret # {} /\ main.alignment_ok = ca.ret
             /\ UNCHANGED << main, ca, exit_status >>
             /\ disk'.level_dirs = disk.level_dirs
       /\ pc = "summary" => (disk' = disk /\ pc' = "exit" /\ exit_status' = {0})
       /\ (pc' = "exit" /\ pc # "summary") =>
             (disk'.manifest_file = << >> /\ exit_status' = {1})
      ]_vars

C25_Witness ==
    /\ pc = "exit" /\ exit_status = {0}
    /\ disk.manifest_file # << >>
    /\ TilesGenerated
    /\ main.alignment_ok = {TRUE}

\* a run that aborted during tile generation, with part of the pyramid
\* written and no manifest
C25_AbortedWitness ==
    /\ pc = "exit" /\ exit_status = {1}
    /\ disk.level_dirs >= 1
    /\ disk.manifest_file = << >>

(* ---------------------- manifest.py: self-test ------------------------ *)

\* the manifest an earlier run left in the directory
StaleManifest ==
    create_manifest("test", 50000, 40000, {5000}, 512, DefaultTileSize, FALSE, 0)
    @@ [dzi_level_count |-> 17,
        magnification_levels |-> calculate_magnification_levels(17)]

\* a manifest.json whose writing was interrupted after its first n members
truncated_manifest(n) ==
    [t |-> "truncated", members |-> SubSeq(json_dumps(StaleManifest).members, 1, n)]

\* the directory the self-test is pointed at: missing, empty, holding an
\* earlier manifest, or holding an invalid manifest.json
InitialDirectories ==
    { EmptyDisk,
      [EmptyDisk EXCEPT !.exists = TRUE],
      save_manifest(EmptyDisk, StaleManifest) }
    \cup { [EmptyDisk EXCEPT !.exists = TRUE,
                             !.manifest_file = << truncated_manifest(n) >>] :
             n \in {0, 4} }

\* level-0 sizes of the self-test's slides
ManifestDims == { << 100000, 80000 >>, << 50000, 40000 >> }

\* mpp0 arguments: None, 0.0, 0.25 (in 1/10000 micron)
MppValues == { {}, {0}, {2500} }

InitManifest ==
    /\ probe = [op |-> "none", args |-> {}, manifest |-> {}, saved |-> {},
                before |-> "", ret |-> {}, raised |-> ""]
    /\ pc = "idle"
    /\ args = IdleArgs
    /\ main = IdleMain
    /\ disk \in InitialDirectories
    /\ exit_status = {}
    /\ ca = IdleCa
    /\ LIBVIPS_AVAILABLE = FALSE
    /\ rng = IdleRng
    /\ retile = IdleRetile

\* manifest = create_manifest(...)
CallCreateManifest ==
    /\ \E slide_id \in SlideIds, dims \in ManifestDims, mpp0 \in MppValues,
          patch_px \in PatchSizes, alignment_ok \in BOOLEAN, now \in 0 .. MaxClock :
          probe' = [probe EXCEPT
              !.op = "create_manifest",
              !.args = {[slide_id |-> slide_id, level0_width |-> dims[1],
                         level0_height |-> dims[2], mpp0 |-> mpp0,
                         patch_px |-> patch_px, tile_size |-> DefaultTileSize,
                         alignment_ok |-> alignment_ok]},
              !.manifest = {create_manifest(slide_id, dims[1], dims[2], mpp0,
                                patch_px, DefaultTileSize, alignment_ok, now)},
              !.ret = {}, !.raised = ""]
    /\ UNCHANGED rest

\* what save_manifest finds in the directory
directory_state(directory, manifest) ==
    CASE ~ directory.exists -> "no directory"
      [] directory.manifest_file = << >> -> "no file"
      [] directory.manifest_file[1].t # "object" -> "invalid file"
      [] directory.manifest_file[1] = json_dumps(manifest) -> "same manifest"
      [] OTHER -> "other manifest"

\* save_manifest(manifest, directory): it returns, or mkdir / open raise an
\* OSError (a directory that cannot be written) and nothing is changed
CallSaveManifest ==
    /\ probe.manifest # {}
    /\ LET manifest == CHOOSE m \in probe.manifest : TRUE
       IN  \/ /\ disk' = save_manifest(disk, manifest)
              /\ probe' = [probe EXCEPT !.op = "save_manifest",
                                        !.saved = {manifest},
                                        !.before = directory_state(disk, manifest),
                                        !.ret = {}, !.raised = ""]
           \/ /\ disk' = disk
              /\ probe' = [probe EXCEPT !.op = "save_manifest",
                                        !.ret = {}, !.raised = "OSError"]
    /\ UNCHANGED << pc, args, main, exit_status, ca, LIBVIPS_AVAILABLE, rng, retile >>

\* loaded = load_manifest(directory / "manifest.json")
CallLoadManifest ==
    /\ LET loaded == load_manifest(disk)
       IN  probe' = [probe EXCEPT !.op = "load_manifest",
                                  !.ret = loaded.value,
                                  !.raised = loaded.raised]
    /\ UNCHANGED rest

NextManifest ==
    \/ CallCreateManifest
    \/ CallSaveManifest
    \/ CallLoadManifest

SpecManifest == InitManifest /\ [][NextManifest]_vars

(* -------------------------- claims: tiler ----------------------------- *)

\* the manifest a reader of the output directory gets from manifest.json
ManifestOnDisk == CHOOSE manifest \in load_manifest(disk).value : TRUE

C4_MagnificationLevels ==
    probe.op = "calculate_magnification_levels" =>
        /\ DOMAIN probe.ret = {"2.5x", "5x", "10x", "20x", "40x"}
        /\ probe.ret["2.5x"] = probe.level_count - 5
        /\ probe.ret["5x"] = probe.level_count - 4
        /\ probe.ret["10x"] = probe.level_count - 3
        /\ probe.ret["20x"] = probe.level_count - 2
        /\ probe.ret["40x"] = probe.level_count - 1
        /\ probe.level_count = 18 =>
               /\ probe.ret["40x"] = 17 /\ probe.ret["20x"] = 16
               /\ probe.ret["10x"] = 15 /\ probe.ret["5x"] = 14
               /\ probe.ret["2.5x"] = 13

C4_Witness ==
    /\ probe.op = "calculate_magnification_levels"
    /\ probe.level_count = 18
    /\ probe.ret["40x"] = 17 /\ probe.ret["2.5x"] = 13

\* C5: a pyramid of fewer than 5 levels is a configuration error of the
\* run: it ends with status 1 and no manifest is written, so every manifest
\* written has its five magnification levels non-negative.
C5_UnderflowIsAnError ==
    /\ (pc = "exit" /\ main.dz_level_count \in 1 .. 4) =>
          /\ exit_status = {1}
          /\ disk.manifest_file = << >>
    /\ disk.manifest_file # << >> =>
          \A mag \in Magnifications :
              ManifestOnDisk.magnification_levels[mag] >= 0

\* the run has read the slide's dimensions: the input existed and opened
SlideOpened == main.level0_width > 0

\* C16 (input errors are fatal): a run that ends without having opened the
\* slide (the input file is missing, or OpenSlide cannot open it) ends with
\* status 1, has generated no tile and has written no manifest.json; a run
\* ends with status 0 only when manifest.json has been written.
C16_InputErrorsFatal ==
    /\ (pc = "exit" /\ ~ SlideOpened) =>
          /\ exit_status = {1}
          /\ disk.level_dirs = 0
          /\ disk.manifest_file = << >>
    /\ exit_status = {0} => disk.manifest_file # << >>

C16_Witness ==
    /\ pc = "exit" /\ exit_status = {1}
    /\ main.slide_id = "test" /\ ~ SlideOpened
    /\ disk.exists /\ disk.level_dirs = 0 /\ disk.manifest_file = << >>

\* C17: the level count recorded in the manifest (dzi_level_count, and the N
\* its magnification_levels are computed from) is the count the tile
\* generator reported when it had finished, and so the number of level
\* directories produced, with the libvips backend as with OpenSlide.
C17_LevelCountFromGenerator ==
    disk.manifest_file # << >> =>
        /\ ManifestOnDisk.dzi_level_count = disk.level_dirs
        /\ ManifestOnDisk.magnification_levels
              = calculate_magnification_levels(disk.level_dirs)
        /\ LIBVIPS_AVAILABLE => ManifestOnDisk.dzi_level_count = main.level_count

(* ------------------------- claims: manifest --------------------------- *)

\* C12 (null preservation): a manifest created with mpp0 = None, saved with
\* save_manifest and read back with load_manifest has the key mpp0, and its
\* value is None: not 0.0, and the key is not missing.
C12_NullPreserved ==
    (/\ probe.op = "load_manifest"
     /\ probe.saved # {}
     /\ \A manifest \in probe.saved : manifest.mpp0 = {})
        => /\ probe.raised = ""
           /\ probe.ret # {}
           /\ \A loaded \in probe.ret :
                 /\ "mpp0" \in DOMAIN loaded
                 /\ loaded.mpp0 = {}
                 /\ loaded.mpp0 # {0}

C12_Witness ==
    /\ probe.op = "load_manifest" /\ probe.raised = ""
    /\ probe.before = "no directory"
    /\ \E manifest \in probe.saved : manifest.mpp0 = {} /\ manifest.patch_px = 512
    /\ \E loaded \in probe.ret : "mpp0" \in DOMAIN loaded /\ loaded.mpp0 = {}

\* C13 (save / load round trip, with overwrite): whatever save_manifest
\* calls were made on the directory, and whether or not the directory or a
\* manifest.json was there before, load_manifest returns a document equal
\* to the one passed to the most recent save_manifest call that returned.
C13_SaveLoadRoundTrip ==
    (probe.op = "load_manifest" /\ probe.saved # {})
        => /\ probe.raised = ""
           /\ probe.ret = probe.saved

C13_Witness ==
    /\ probe.op = "load_manifest" /\ probe.raised = ""
    /\ probe.before = "other manifest"
    /\ probe.saved # {} /\ probe.ret = probe.saved
    /\ probe.ret # {StaleManifest}

\* the text of manifest.json is missing or is not valid JSON
NoValidManifest ==
    \/ disk.manifest_file = << >>
    \/ disk.manifest_file[1].t # "object"

\* C14: load_manifest fails with an error when the file is absent
\* (FileNotFoundError) or its content is not valid JSON (JSONDecodeError);
\* it then returns no manifest at all, and no call of it changes the file.
C14_LoadFailsCleanly ==
    /\ [] ((probe.op = "load_manifest" /\ NoValidManifest) =>
              /\ probe.raised =
                    IF disk.manifest_file = << >>
                    THEN "FileNotFoundError" ELSE "JSONDecodeError"
              /\ probe.ret = {})
    /\ [][probe'.op = "load_manifest" => disk' = disk]_vars

C14_Witness ==
    /\ probe.op = "load_manifest"
    /\ probe.raised = "JSONDecodeError" /\ probe.ret = {}
    /\ disk.manifest_file = << truncated_manifest(4) >>

\* C15: the document create_manifest returns has overlap = 0 and
\* anchor = [0, 0] whatever the arguments, and its slide_id, level0_width,
\* level0_height, mpp0, patch_px, tile_size and alignment_ok are the
\* arguments passed in.
C15_CreateManifestFields ==
    probe.op = "create_manifest" =>
        \A a \in probe.args : \A manifest \in probe.manifest :
            /\ manifest.overlap = 0
            /\ manifest.anchor = << 0, 0 >>
            /\ manifest.slide_id = a.slide_id
            /\ manifest.level0_width = a.level0_width
            /\ manifest.level0_height = a.level0_height
            /\ manifest.mpp0 = a.mpp0
            /\ manifest.patch_px = a.patch_px
            /\ manifest.tile_size = a.tile_size
            /\ manifest.alignment_ok = a.alignment_ok

C15_Witness ==
    /\ probe.op = "create_manifest"
    /\ \E a \in probe.args : \E manifest \in probe.manifest :
          /\ a.mpp0 = {} /\ a.alignment_ok = FALSE /\ a.level0_width = 100000
          /\ manifest.overlap = 0 /\ manifest.anchor = << 0, 0 >>
          /\ manifest.level0_width = 100000 /\ manifest.alignment_ok = FALSE

(* ------------------------- claims: verifier --------------------------- *)

\* the round trip of one cell, as check_alignment evaluates it
RoundTrips(cell, cell_size) ==
    LET xy == center(cell[1], cell[2], cell_size)
    IN  indexOf(xy[1], xy[2], cell_size) = cell

C11_DegenerateGrid ==
    LET narrow == ca.level0_width < ca.patch_px
        low    == ca.level0_height < ca.patch_px
    IN  /\ pc \in {"generate_samples", "fill", "verify", "returned"} =>
              /\ narrow => ca.max_i = 0
              /\ low => ca.max_j = 0
        /\ (narrow \/ low) =>
              /\ pc # "fill"
              /\ pc \in {"verify", "returned"} =>
                    ca.samples = << >> /\ ca.rows = << >> /\ ca.all_passed
              /\ pc = "returned" => ca.ret = {TRUE}

C11_Witness ==
    /\ pc = "returned" /\ ca.ret = {TRUE}
    /\ ca.level0_width = 128 /\ ca.level0_height = 768 /\ ca.patch_px = 256
    /\ ca.num_samples = MaxSamples
    /\ ca.max_i = 0 /\ ca.max_j = 3
    /\ ca.samples = << >>

\* _generate_samples has returned: ca.samples is the list it returned
SamplesReturned == pc \in {"verify", "returned"}

\* C18 (corner sampling): on a grid with max_i >= 2 and max_j >= 2 and with
\* num_samples >= 5 the returned samples contain the four corner cells
\* (0,0), (max_i-1,0), (0,max_j-1), (max_i-1,max_j-1); on a grid with at
\* least one cell where that condition fails, and num_samples >= 1, they
\* contain the origin cell (0,0).
C18_CornerSampling ==
    SamplesReturned =>
        LET corners == ca.max_i >= 2 /\ ca.max_j >= 2 /\ ca.num_samples >= 5
        IN  /\ corners =>
                  /\ InList(<< 0, 0 >>, ca.samples)
                  /\ InList(<< ca.max_i - 1, 0 >>, ca.samples)
                  /\ InList(<< 0, ca.max_j - 1 >>, ca.samples)
                  /\ InList(<< ca.max_i - 1, ca.max_j - 1 >>, ca.samples)
            /\ (ca.max_i >= 1 /\ ca.max_j >= 1 /\ ~ corners /\ ca.num_samples >= 1)
                  => InList(<< 0, 0 >>, ca.samples)

C18_Witness ==
    /\ pc = "returned"
    /\ ca.max_i = 3 /\ ca.max_j = 2 /\ ca.num_samples = 5
    /\ ca.samples = << << 0, 0 >>, << 2, 0 >>, << 0, 1 >>, << 2, 1 >>, << 1, 1 >> >>

\* C19: for every grid with at least one complete cell and every
\* num_samples >= 1, the samples _generate_samples returns contain the
\* grid-center cell (max_i // 2, max_j // 2).
C19_CenterSampled ==
    (SamplesReturned /\ ca.max_i >= 1 /\ ca.max_j >= 1 /\ ca.num_samples >= 1)
        => InList(<< ca.max_i \div 2, ca.max_j \div 2 >>, ca.samples)

\* C20: for every grid and every num_samples >= 0 the list
\* _generate_samples returns has at most num_samples cells.
C20_AtMostNumSamples ==
    SamplesReturned => Len(ca.samples) <= ca.num_samples

C20_Witness ==
    /\ pc = "returned"
    /\ ca.max_i = 2 /\ ca.max_j = 2 /\ ca.num_samples = 1
    /\ ca.samples = << << 0, 0 >> >>

\* C21: the list _generate_samples returns never holds the same cell twice,
\* whatever the grid and num_samples, also where corners, origin and center
\* coincide (1xN, 2x2, 1x1 grids); nor does the list while it is filled.
C21_NoDuplicateSamples ==
    pc \in {"fill", "verify", "returned"} =>
        \A k \in 1 .. Len(ca.samples) : \A l \in 1 .. Len(ca.samples) :
            k # l => ca.samples[k] # ca.samples[l]

C21_Witness ==
    /\ pc = "returned"
    /\ ca.max_i = 2 /\ ca.max_j = 2 /\ ca.num_samples = 6
    /\ ca.attempts = 60
    /\ Len(ca.samples) = 4
    /\ InList(<< 1, 1 >>, ca.samples)

\* C22 (determinism): a second call of check_alignment with the arguments
\* of the first returns the same samples in the same order, the same report
\* rows and the same verdict, however the process-wide generator was left
\* before the first call and whatever was done to it between the two.
C22_Deterministic ==
    (probe.op = "check_alignment" /\ pc \in {"verify", "returned"}) =>
        /\ ca.samples = probe.samples
        /\ pc = "returned" => (ca.ret = probe.ret /\ ca.rows = probe.rows)

C22_Witness ==
    /\ probe.op = "check_alignment" /\ pc = "returned"
    /\ ca.level0_width = 10000 /\ ca.level0_height = 8000 /\ ca.patch_px = 256
    /\ ca.num_samples = 6
    /\ rng.seed = SampleSeed /\ rng.pos > 0
    /\ ca.samples = << << 0, 0 >>, << 38, 0 >>, << 0, 30 >>, << 38, 30 >>,
                       << 19, 15 >>, << 7, 0 >> >>
    /\ probe.samples = ca.samples /\ probe.ret = {TRUE}

\* C23 (termination of the random fill): the loop makes at most
\* num_samples * 10 draws: every turn raises the attempts counter by one,
\* the counter never passes num_samples * 10, and the loop is always left,
\* also when the grid has fewer cells than num_samples.
C23_FillTerminates ==
    /\ [](pc = "fill" =>
             /\ ca.max_attempts = ca.num_samples * 10
             /\ ca.attempts <= ca.max_attempts)
    /\ [][(pc = "fill" /\ pc' = "fill") => ca'.attempts = ca.attempts + 1]_vars
    /\ (pc = "fill" ~> pc = "verify")

C23_Witness ==
    /\ pc = "returned"
    /\ ca.max_i = 1 /\ ca.max_j = 3 /\ ca.num_samples = 4
    /\ ca.attempts = 40 /\ Len(ca.samples) = 3

C28_SamplesInsideGrid ==
    pc \in {"fill", "verify", "returned"} =>
        \A k \in 1 .. Len(ca.samples) :
            /\ 0 <= ca.samples[k][1] /\ ca.samples[k][1] < ca.max_i
            /\ 0 <= ca.samples[k][2] /\ ca.samples[k][2] < ca.max_j
            /\ ~ is_edge_cell(ca.samples[k][1], ca.samples[k][2],
                              ca.level0_width, ca.level0_height, ca.cell_size)

C28_Witness ==
    /\ pc = "returned"
    /\ ca.max_i = 3 /\ ca.max_j = 3 /\ ca.num_samples = 6
    /\ ca.samples = << << 0, 0 >>, << 2, 0 >>, << 0, 2 >>, << 2, 2 >>,
                       << 1, 1 >>, << 1, 0 >> >>


(* ------------------- retile_and_upload.py: main ----------------------- *)

\* slide ids of the hardcoded list; the CSV may name any of them, in any
\* order and more than once
SlideIdPool == {"CRC_0170", "CRC_0423"}

RECURSIVE SlideLists(_)
SlideLists(n) ==
    IF n = 0 THEN {<< >>}
    ELSE LET shorter == SlideLists(n - 1)
         IN  shorter \cup {Append(l, id) : l \in {m \in shorter : Len(m) = n - 1},
                                             id \in SlideIdPool}

\* return codes of the tiler subprocess (wsi_tiler's exit statuses)
TilerReturnCodes == {0, 1}

\* the slide the loop is at
current_slide == retile.slide_ids[retile.i + 1]

\* print(...): the line is kept with the loop index it was printed at
print_line(log, i, line) == Append(log, << i, line >>)

InitRetile ==
    /\ probe = [op |-> "none"]
    /\ pc = "retile_main"
    /\ args = IdleArgs
    /\ main = IdleMain
    /\ disk = EmptyDisk
    /\ exit_status = {}
    /\ ca = IdleCa
    /\ LIBVIPS_AVAILABLE = FALSE
    /\ rng = IdleRng
    /\ retile = IdleRetile

\* lines 36-60: the slide ids, from the labels CSV or the hardcoded list;
\* results = []
RT_ReadSlideIds ==
    /\ pc = "retile_main"
    /\ \E slide_ids \in SlideLists(MaxSlides) :
          retile' = [IdleRetile EXCEPT !.slide_ids = slide_ids]
    /\ pc' = "retile_loop"
    /\ UNCHANGED << probe, args, main, disk, exit_status, ca, LIBVIPS_AVAILABLE, rng >>

\* lines 62-72: the next slide id; find_slide; a slide without a file is
\* recorded and skipped
RT_FindSlide ==
    /\ pc = "retile_loop"
    /\ retile.i < Len(retile.slide_ids)
    /\ \E found \in BOOLEAN :
          LET log == print_line(retile.log, retile.i, "Processing")
          IN  IF ~ found
              THEN /\ retile' = [retile EXCEPT
                          !.results = Append(@, << current_slide, FALSE, "File not found" >>),
                          !.log = log,
                          !.i = @ + 1]
                   /\ pc' = "retile_loop"
              ELSE /\ retile' = [retile EXCEPT !.log = print_line(log, retile.i, "Found")]
                   /\ pc' = "remove_old_tiles"
    /\ UNCHANGED << probe, args, main, disk, exit_status, ca, LIBVIPS_AVAILABLE, rng >>

\* lines 74-81: tiles of an earlier run are removed; an OSError of
\* shutil.rmtree is caught by nobody and ends the process (traceback,
\* status 1)
RT_RemoveOldTiles ==
    /\ pc = "remove_old_tiles"
    /\ \E out_dir_exists \in BOOLEAN, removed \in BOOLEAN :
          IF ~ out_dir_exists
          THEN /\ ~ removed
               /\ retile' = retile
               /\ pc' = "run_tiler" /\ exit_status' = exit_status
          ELSE LET log == print_line(retile.log, retile.i, "Removing old tiles")
               IN  IF removed
                   THEN /\ retile' = [retile EXCEPT !.log = log]
                        /\ pc' = "run_tiler" /\ exit_status' = exit_status
                   ELSE /\ retile' = [retile EXCEPT
                               !.log = print_line(log, retile.i, "Traceback")]
                        /\ Exit(1)
    /\ UNCHANGED << probe, args, main, disk, ca, LIBVIPS_AVAILABLE, rng >>

\* lines 83-104: the tiler runs as a subprocess (check=True); a non-zero
\* return code is recorded and the slide skipped
RT_RunTiler ==
    /\ pc = "run_tiler"
    /\ \E returncode \in TilerReturnCodes :
          IF returncode = 0
          THEN /\ retile' = [retile EXCEPT
                      !.log = print_line(@, retile.i, "Tiled successfully")]
               /\ pc' = "upload"
          ELSE /\ retile' = [retile EXCEPT
                      !.results = Append(@, << current_slide, FALSE, "Tiling failed" >>),
                      !.log = print_line(@, retile.i, "Tiling failed"),
                      !.i = @ + 1]
               /\ pc' = "retile_loop"
    /\ UNCHANGED << probe, args, main, disk, exit_status, ca, LIBVIPS_AVAILABLE, rng >>

\* lines 106-122: aws s3 sync (check=True); the outcome is recorded
RT_Upload ==
    /\ pc = "upload"
    /\ \E uploaded \in BOOLEAN :
          LET log == print_line(retile.log, retile.i, "Uploading to S3")
          IN  retile' = [retile EXCEPT
                  !.results = Append(@, IF uploaded
                                        THEN << current_slide, TRUE, "OK" >>
                                        ELSE << current_slide, FALSE, "Upload failed" >>),
                  !.log = print_line(log, retile.i,
                                     IF uploaded THEN "Uploaded" ELSE "Upload failed"),
                  !.i = @ + 1]
    /\ pc' = "retile_loop"
    /\ UNCHANGED << probe, args, main, disk, exit_status, ca, LIBVIPS_AVAILABLE, rng >>

\* lines 124-138: the summary; sys.exit(1) if any result is a failure,
\* else main returns
RT_Summary ==
    /\ pc = "retile_loop"
    /\ retile.i = Len(retile.slide_ids)
    /\ LET failed == Cardinality({k \in 1 .. Len(retile.results) : ~ retile.results[k][2]})
       IN  IF failed # 0 THEN Exit(1) ELSE Exit(0)
    /\ UNCHANGED << probe, args, main, disk, ca, LIBVIPS_AVAILABLE, rng, retile >>

NextRetile ==
    \/ RT_ReadSlideIds
    \/ RT_FindSlide
    \/ RT_RemoveOldTiles
    \/ RT_RunTiler
    \/ RT_Upload
    \/ RT_Summary

SpecRetile == InitRetile /\ [][NextRetile]_vars

\* the line was printed while the loop was at index i
Printed(i, line) ==
    \E n \in 1 .. Len(retile.log) : retile.log[n] = << i, line >>

\* the upload of every slide comes after its file was found and its tiler
\* run succeeded, and a success is recorded only for an upload that worked
UploadsAfterTiling ==
    /\ \A i \in 0 .. MaxSlides :
          Printed(i, "Uploading to S3") =>
              Printed(i, "Found") /\ Printed(i, "Tiled successfully")
    /\ \A k \in 1 .. Len(retile.results) :
          retile.results[k][2] => Printed(k - 1, "Uploaded")

\* one outcome per slide id, in the order of the list
OneOutcomeEach ==
    /\ Len(retile.results) = Len(retile.slide_ids)
    /\ \A k \in 1 .. Len(retile.slide_ids) :
          retile.results[k][1] = retile.slide_ids[k]

SomeOutcomeFailed ==
    \E k \in 1 .. Len(retile.results) : ~ retile.results[k][2]

\* C30: in retile_and_upload every slide id of the list is processed in
\* order regardless of earlier failures and gets exactly one recorded
\* outcome; the upload of a slide is attempted only after its file was found
\* and its tiling succeeded, the outcome is success only if the upload
\* succeeded, and the script exits with status 1 if and only if at least
\* one outcome is a failure.
C30_EverySlideOneOutcome ==
    /\ UploadsAfterTiling
    /\ pc = "exit" =>
          /\ OneOutcomeEach
          /\ exit_status = {1} <=> SomeOutcomeFailed

\* the part of C30 that holds in every run: the order of the steps of one
\* slide, and everything else on the runs in which no exception escapes
C30_WhenNothingEscapes ==
    /\ UploadsAfterTiling
    /\ (pc = "exit" /\ \A i \in 0 .. MaxSlides : ~ Printed(i, "Traceback")) =>
          /\ OneOutcomeEach
          /\ exit_status = {1} <=> SomeOutcomeFailed

\* the second of three slides had old tiles that could not be removed
C30_AbortedRun ==
    /\ pc = "exit" /\ exit_status = {1}
    /\ Len(retile.slide_ids) = 3
    /\ retile.results = << << retile.slide_ids[1], TRUE, "OK" >> >>
    /\ Printed(1, "Traceback")

\* a complete run: a tiling failure, a success, an upload failure
C30_CompleteRun ==
    /\ pc = "exit" /\ exit_status = {1}
    /\ Len(retile.results) = 3
    /\ retile.results[1][3] = "Tiling failed"
    /\ retile.results[2][3] = "OK"
    /\ retile.results[3][3] = "Upload failed"

=============================================================================
